---- MODULE Spec2Model ----
(***************************************************************************)
(* A model of src/icontype.rs of rust-icns: the IconType registry, its     *)
(* mapping to and from four-byte OSType tags, the pixel/screen width       *)
(* tables, and OSType's Display and derived ordering.                      *)
(*                                                                         *)
(* Every function of the file is pure, so the state is one call frame:     *)
(* which function was called, its arguments and what it returned.  A call  *)
(* action runs a whole function on arguments drawn from bounded sets;      *)
(* Return drops the frame again.                                           *)
(***************************************************************************)
EXTENDS Integers, Sequences, FiniteSets, TLC

VARIABLES call, self, ostype, rhs, icon_type, width, out, ordering, equal, panicked

vars == <<call, self, ostype, rhs, icon_type, width, out, ordering, equal, panicked>>

----------------------------------------------------------------------------
(* Bounds of the input sets.                                               *)

\* How many of the probe bytes (bytes that occur in no known tag) a tag handed
\* to from_ostype or to Display may hold, besides the bytes of the known tags.
NumProbes == 6

\* How many distinct byte values the two operands of a comparison may hold.
NumCmpBytes == 3

----------------------------------------------------------------------------
(* Option<T>                                                               *)

None == <<>>

Some(x) == <<x>>

----------------------------------------------------------------------------
(* Byte-string literals b"...." : the ASCII code of each character used.   *)

ord ==
    [c \in {"i", "s", "3", "2", "8", "m", "k", "l", "t", "c", "0", "1", "4", "9"} |->
        CASE c = "i" -> 105 [] c = "s" -> 115 [] c = "3" -> 51  [] c = "2" -> 50
          [] c = "8" -> 56  [] c = "m" -> 109 [] c = "k" -> 107 [] c = "l" -> 108
          [] c = "t" -> 116 [] c = "c" -> 99  [] c = "0" -> 48  [] c = "1" -> 49
          [] c = "4" -> 52  [] c = "9" -> 57]

b(c1, c2, c3, c4) == <<ord[c1], ord[c2], ord[c3], ord[c4]>>

----------------------------------------------------------------------------
(* enum IconType                                                           *)

IconType ==
    {"RGB24_16x16", "Mask8_16x16", "RGB24_32x32", "Mask8_32x32",
     "RGB24_128x128", "Mask8_128x128", "RGBA32_256x256", "RGBA32_256x256_2x",
     "RGBA32_512x512", "RGBA32_512x512_2x"}

\* A from_ostype whose table matches letters without regard to case.
from_ostype_caseless(raw) ==
    LET lower(x) == IF x >= 65 /\ x <= 90 THEN x + 32 ELSE x
        low == [i \in 1..4 |-> lower(raw[i])]
    IN  CASE low = b("i","s","3","2") -> Some("RGB24_16x16")
          [] low = b("s","8","m","k") -> Some("Mask8_16x16")
          [] low = b("i","l","3","2") -> Some("RGB24_32x32")
          [] low = b("l","8","m","k") -> Some("Mask8_32x32")
          [] low = b("i","t","3","2") -> Some("RGB24_128x128")
          [] low = b("t","8","m","k") -> Some("Mask8_128x128")
          [] low = b("i","c","0","8") -> Some("RGBA32_256x256")
          [] low = b("i","c","1","4") -> Some("RGBA32_256x256_2x")
          [] low = b("i","c","0","9") -> Some("RGBA32_512x512")
          [] low = b("i","c","1","0") -> Some("RGBA32_512x512_2x")
          [] OTHER -> None

\* A from_ostype whose arms for ic14 and ic10 are exchanged.
from_ostype_swapped(raw) ==
    CASE raw = b("i","s","3","2") -> Some("RGB24_16x16")
      [] raw = b("s","8","m","k") -> Some("Mask8_16x16")
      [] raw = b("i","l","3","2") -> Some("RGB24_32x32")
      [] raw = b("l","8","m","k") -> Some("Mask8_32x32")
      [] raw = b("i","t","3","2") -> Some("RGB24_128x128")
      [] raw = b("t","8","m","k") -> Some("Mask8_128x128")
      [] raw = b("i","c","0","8") -> Some("RGBA32_256x256")
      [] raw = b("i","c","1","4") -> Some("RGBA32_512x512_2x")
      [] raw = b("i","c","0","9") -> Some("RGBA32_512x512")
      [] raw = b("i","c","1","0") -> Some("RGBA32_256x256_2x")
      [] OTHER -> None

\* IconType::from_ostype: the match on the four raw bytes, first arm first.
from_ostype(raw) ==
    CASE raw = b("i","s","3","2") -> Some("RGB24_16x16")
      [] raw = b("s","8","m","k") -> Some("Mask8_16x16")
      [] raw = b("i","l","3","2") -> Some("RGB24_32x32")
      [] raw = b("l","8","m","k") -> Some("Mask8_32x32")
      [] raw = b("i","t","3","2") -> Some("RGB24_128x128")
      [] raw = b("t","8","m","k") -> Some("Mask8_128x128")
      [] raw = b("i","c","0","8") -> Some("RGBA32_256x256")
      [] raw = b("i","c","1","4") -> Some("RGBA32_256x256_2x")
      [] raw = b("i","c","0","9") -> Some("RGBA32_512x512")
      [] raw = b("i","c","1","0") -> Some("RGBA32_512x512_2x")
      [] OTHER -> None

\* An ostype whose arm for RGBA32_512x512_2x repeats the tag of RGBA32_512x512.
ostype_of_duplicate(v) ==
    CASE v = "RGB24_16x16"       -> b("i","s","3","2")
      [] v = "Mask8_16x16"       -> b("s","8","m","k")
      [] v = "RGB24_32x32"       -> b("i","l","3","2")
      [] v = "Mask8_32x32"       -> b("l","8","m","k")
      [] v = "RGB24_128x128"     -> b("i","t","3","2")
      [] v = "Mask8_128x128"     -> b("t","8","m","k")
      [] v = "RGBA32_256x256"    -> b("i","c","0","8")
      [] v = "RGBA32_256x256_2x" -> b("i","c","1","4")
      [] v = "RGBA32_512x512"    -> b("i","c","0","9")
      [] v = "RGBA32_512x512_2x" -> b("i","c","0","9")

\* An ostype whose arms for the two 128x128 elements are exchanged.
ostype_of_swapped(v) ==
    CASE v = "RGB24_16x16"       -> b("i","s","3","2")
      [] v = "Mask8_16x16"       -> b("s","8","m","k")
      [] v = "RGB24_32x32"       -> b("i","l","3","2")
      [] v = "Mask8_32x32"       -> b("l","8","m","k")
      [] v = "RGB24_128x128"     -> b("t","8","m","k")
      [] v = "Mask8_128x128"     -> b("i","t","3","2")
      [] v = "RGBA32_256x256"    -> b("i","c","0","8")
      [] v = "RGBA32_256x256_2x" -> b("i","c","1","4")
      [] v = "RGBA32_512x512"    -> b("i","c","0","9")
      [] v = "RGBA32_512x512_2x" -> b("i","c","1","0")

\* IconType::ostype (named ostype_of: ostype is the frame's variable).
ostype_of(v) ==
    CASE v = "RGB24_16x16"       -> b("i","s","3","2")
      [] v = "Mask8_16x16"       -> b("s","8","m","k")
      [] v = "RGB24_32x32"       -> b("i","l","3","2")
      [] v = "Mask8_32x32"       -> b("l","8","m","k")
      [] v = "RGB24_128x128"     -> b("i","t","3","2")
      [] v = "Mask8_128x128"     -> b("t","8","m","k")
      [] v = "RGBA32_256x256"    -> b("i","c","0","8")
      [] v = "RGBA32_256x256_2x" -> b("i","c","1","4")
      [] v = "RGBA32_512x512"    -> b("i","c","0","9")
      [] v = "RGBA32_512x512_2x" -> b("i","c","1","0")

\* A pixel_width that gives the 2x elements their screen width.
pixel_width_no_retina(v) ==
    CASE v = "RGB24_16x16"       -> 16
      [] v = "Mask8_16x16"       -> 16
      [] v = "RGB24_32x32"       -> 32
      [] v = "Mask8_32x32"       -> 32
      [] v = "RGB24_128x128"     -> 128
      [] v = "Mask8_128x128"     -> 128
      [] v = "RGBA32_256x256"    -> 256
      [] v = "RGBA32_256x256_2x" -> 256
      [] v = "RGBA32_512x512"    -> 512
      [] v = "RGBA32_512x512_2x" -> 512

\* A pixel_width that doubles the 128x128 image as if it were a 2x element.
pixel_width_doubled_128(v) ==
    CASE v = "RGB24_16x16"       -> 16
      [] v = "Mask8_16x16"       -> 16
      [] v = "RGB24_32x32"       -> 32
      [] v = "Mask8_32x32"       -> 32
      [] v = "RGB24_128x128"     -> 256
      [] v = "Mask8_128x128"     -> 128
      [] v = "RGBA32_256x256"    -> 256
      [] v = "RGBA32_256x256_2x" -> 512
      [] v = "RGBA32_512x512"    -> 512
      [] v = "RGBA32_512x512_2x" -> 1024

\* IconType::pixel_width
pixel_width(v) ==
    CASE v = "RGB24_16x16"       -> 16
      [] v = "Mask8_16x16"       -> 16
      [] v = "RGB24_32x32"       -> 32
      [] v = "Mask8_32x32"       -> 32
      [] v = "RGB24_128x128"     -> 128
      [] v = "Mask8_128x128"     -> 128
      [] v = "RGBA32_256x256"    -> 256
      [] v = "RGBA32_256x256_2x" -> 512
      [] v = "RGBA32_512x512"    -> 512
      [] v = "RGBA32_512x512_2x" -> 1024

\* A screen_width that returns the pixel width of RGBA32_512x512_2x.
screen_width_pixels(v) ==
    CASE v = "RGB24_16x16"       -> 16
      [] v = "Mask8_16x16"       -> 16
      [] v = "RGB24_32x32"       -> 32
      [] v = "Mask8_32x32"       -> 32
      [] v = "RGB24_128x128"     -> 128
      [] v = "Mask8_128x128"     -> 128
      [] v = "RGBA32_256x256"    -> 256
      [] v = "RGBA32_256x256_2x" -> 256
      [] v = "RGBA32_512x512"    -> 512
      [] v = "RGBA32_512x512_2x" -> 1024

\* IconType::screen_width
screen_width(v) ==
    CASE v = "RGB24_16x16"       -> 16
      [] v = "Mask8_16x16"       -> 16
      [] v = "RGB24_32x32"       -> 32
      [] v = "Mask8_32x32"       -> 32
      [] v = "RGB24_128x128"     -> 128
      [] v = "Mask8_128x128"     -> 128
      [] v = "RGBA32_256x256"    -> 256
      [] v = "RGBA32_256x256_2x" -> 256
      [] v = "RGBA32_512x512"    -> 512
      [] v = "RGBA32_512x512_2x" -> 512

----------------------------------------------------------------------------
(* struct OSType(pub [u8; 4]) and the derived PartialEq, Eq, PartialOrd, Ord *)

Byte == 0..255

\* Ordering of two u8 taken as signed bytes.
cmp_u8_signed(x, y) ==
    LET sx == IF x >= 128 THEN x - 256 ELSE x
        sy == IF y >= 128 THEN y - 256 ELSE y
    IN  IF sx < sy THEN "Less" ELSE IF sx > sy THEN "Greater" ELSE "Equal"

\* Ord for u8: the unsigned values compared.
cmp_u8(x, y) ==
    IF x < y THEN "Less" ELSE IF x > y THEN "Greater" ELSE "Equal"

\* Ord for [u8; 4], which derive(Ord) applies to OSType's only field: the
\* elements are compared in index order and the first one that is not Equal
\* decides.
RECURSIVE cmp_from(_, _, _)
cmp_from(l, r, i) ==
    IF i > 4 THEN "Equal"
    ELSE LET o == cmp_u8(l[i], r[i])
         IN  IF o # "Equal" THEN o ELSE cmp_from(l, r, i + 1)

cmp(l, r) == cmp_from(l, r, 1)

\* PartialEq for [u8; 4], which derive(PartialEq) applies to OSType's only
\* field: every element equal.
eq(l, r) == \A i \in 1..4 : l[i] = r[i]

----------------------------------------------------------------------------
(* impl fmt::Display for OSType                                            *)

\* u32::from(u8): the value zero-extended to 32 bits; a byte is below 2^8, so
\* no reduction modulo 2^32 changes it.
u32_from(byte) == byte

\* A conversion that takes only ASCII for a character.
char_from_u32_ascii(n) ==
    IF n > 127 THEN None ELSE Some(n)

\* std::char::from_u32: None for a surrogate or a value above 0x10FFFF.
char_from_u32(n) ==
    IF n > 1114111 \/ (n >= 55296 /\ n <= 57343) THEN None ELSE Some(n)

\* A write that puts the low byte of the character into the output as it is.
write_char_raw(c) == <<c % 256>>

\* write!(out, "{}", character): the character's UTF-8 encoding is appended to
\* the formatter's output.
write_char(c) ==
    IF c < 128 THEN <<c>>
    ELSE IF c < 2048 THEN <<192 + (c \div 64), 128 + (c % 64)>>
    ELSE IF c < 65536 THEN
        <<224 + (c \div 4096), 128 + ((c \div 64) % 64), 128 + (c % 64)>>
    ELSE <<240 + (c \div 262144), 128 + ((c \div 4096) % 64),
           128 + ((c \div 64) % 64), 128 + (c % 64)>>

\* The loop of fmt from its i-th byte on, acc being what was written so far:
\* unwrap panics on None and the loop ends there.
RECURSIVE fmt_from(_, _, _)
fmt_from(raw, i, acc) ==
    IF i > 4 THEN [out |-> acc, panicked |-> FALSE]
    ELSE LET character == char_from_u32(u32_from(raw[i]))
         IN  IF character = None
             THEN [out |-> acc, panicked |-> TRUE]
             ELSE fmt_from(raw, i + 1, acc \o write_char(character[1]))

fmt(raw) == fmt_from(raw, 1, <<>>)

----------------------------------------------------------------------------
(* The arguments the calls are made with.                                  *)

\* The bytes that occur in the ten tags of the two match tables.
TagBytes == {ord[c] : c \in DOMAIN ord}

\* Bytes that occur in no tag: 'x', 'I', 'S', 'z', 0x80, 0xFF, 0x00, 0x7F.
Probes == <<120, 73, 83, 122, 128, 255, 0, 127>>

ProbeBytes == {Probes[i] : i \in 1..(IF NumProbes < Len(Probes) THEN NumProbes ELSE Len(Probes))}

\* The tags from_ostype and Display are called with.
OSTypes == [1..4 -> TagBytes \cup ProbeBytes]

\* Bytes on both sides of the sign bit, for the operands of a comparison.
CmpProbes == <<127, 128, 0, 255, 1>>

CmpBytes == {CmpProbes[i] : i \in 1..(IF NumCmpBytes < Len(CmpProbes) THEN NumCmpBytes ELSE Len(CmpProbes))}

CmpOSTypes == [1..4 -> CmpBytes]

----------------------------------------------------------------------------
(* The calls.                                                              *)

Init ==
    /\ call = "none"
    /\ self = None
    /\ ostype = <<>>
    /\ rhs = <<>>
    /\ icon_type = None
    /\ width = 0
    /\ out = <<>>
    /\ ordering = "none"
    /\ equal = FALSE
    /\ panicked = FALSE

\* IconType::from_ostype(OSType(t))
FromOstype ==
    /\ call = "none"
    /\ \E t \in OSTypes :
        /\ ostype' = t
        /\ icon_type' = from_ostype(t)
    /\ call' = "from_ostype"
    /\ UNCHANGED <<self, rhs, width, out, ordering, equal, panicked>>

\* v.ostype()
Ostype ==
    /\ call = "none"
    /\ \E v \in IconType :
        /\ self' = Some(v)
        /\ ostype' = ostype_of(v)
    /\ call' = "ostype"
    /\ UNCHANGED <<rhs, icon_type, width, out, ordering, equal, panicked>>

\* v.pixel_width()
PixelWidth ==
    /\ call = "none"
    /\ \E v \in IconType :
        /\ self' = Some(v)
        /\ width' = pixel_width(v)
    /\ call' = "pixel_width"
    /\ UNCHANGED <<ostype, rhs, icon_type, out, ordering, equal, panicked>>

\* v.screen_width()
ScreenWidth ==
    /\ call = "none"
    /\ \E v \in IconType :
        /\ self' = Some(v)
        /\ width' = screen_width(v)
    /\ call' = "screen_width"
    /\ UNCHANGED <<ostype, rhs, icon_type, out, ordering, equal, panicked>>

\* write!(s, "{}", OSType(t))
Fmt ==
    /\ call = "none"
    /\ \E t \in OSTypes :
        /\ ostype' = t
        /\ out' = fmt(t).out
        /\ panicked' = fmt(t).panicked
    /\ call' = "fmt"
    /\ UNCHANGED <<self, rhs, icon_type, width, ordering, equal>>

\* OSType(l).cmp(&OSType(r)) and OSType(l) == OSType(r)
Cmp ==
    /\ call = "none"
    /\ \E l \in CmpOSTypes, r \in CmpOSTypes :
        /\ ostype' = l
        /\ rhs' = r
        /\ ordering' = cmp(l, r)
        /\ equal' = eq(l, r)
    /\ call' = "cmp"
    /\ UNCHANGED <<self, icon_type, width, out, panicked>>

\* One pass of the loop of tests::icon_type_ostype_round_trip, for the element
\* v of icon_types: assert_eq! panics when the two sides differ.
RoundTripTest ==
    /\ call = "none"
    /\ \E v \in IconType :
        /\ self' = Some(v)
        /\ ostype' = ostype_of(v)
        /\ icon_type' = from_ostype(ostype_of(v))
        /\ panicked' = (Some(v) # from_ostype(ostype_of(v)))
    /\ call' = "icon_type_ostype_round_trip"
    /\ UNCHANGED <<rhs, width, out, ordering, equal>>

\* The call returns to its caller, unless it panicked.
Return ==
    /\ call # "none"
    /\ ~panicked
    /\ call' = "none"
    /\ self' = None
    /\ ostype' = <<>>
    /\ rhs' = <<>>
    /\ icon_type' = None
    /\ width' = 0
    /\ out' = <<>>
    /\ ordering' = "none"
    /\ equal' = FALSE
    /\ UNCHANGED panicked

Next ==
    \/ FromOstype
    \/ Ostype
    \/ PixelWidth
    \/ ScreenWidth
    \/ Fmt
    \/ Cmp
    \/ RoundTripTest
    \/ Return

Spec == Init /\ [][Next]_vars

----------------------------------------------------------------------------
(* The properties.  The tags and sizes below are written out as the        *)
(* documentation states them, not taken from the tables above.             *)

Tag_is32 == <<105, 115, 51, 50>>
Tag_s8mk == <<115, 56, 109, 107>>
Tag_il32 == <<105, 108, 51, 50>>
Tag_l8mk == <<108, 56, 109, 107>>
Tag_it32 == <<105, 116, 51, 50>>
Tag_t8mk == <<116, 56, 109, 107>>
Tag_ic08 == <<105, 99, 48, 56>>
Tag_ic14 == <<105, 99, 49, 52>>
Tag_ic09 == <<105, 99, 48, 57>>
Tag_ic10 == <<105, 99, 49, 48>>

KnownTags ==
    {Tag_is32, Tag_s8mk, Tag_il32, Tag_l8mk, Tag_it32, Tag_t8mk,
     Tag_ic08, Tag_ic14, Tag_ic09, Tag_ic10}

Tag_xxxx == <<120, 120, 120, 120>>
Tag_zzzz == <<122, 122, 122, 122>>
Tag_IS32 == <<73, 83, 51, 50>>

\* C1: round trip. For every variant v, from_ostype(v.ostype()) is Some(v):
\* after v.ostype() the returned tag looks up to v, and a pass of the round
\* trip test ends with from == Some(v) and no failed assertion.
C1_RoundTrip ==
    /\ call \in {"ostype", "icon_type_ostype_round_trip"} => from_ostype(ostype) = self
    /\ call = "icon_type_ostype_round_trip" => icon_type = self /\ ~panicked

C1_Witness ==
    /\ call = "icon_type_ostype_round_trip"
    /\ self = Some("RGBA32_512x512_2x")
    /\ ostype = Tag_ic10
    /\ icon_type = Some("RGBA32_512x512_2x")

\* C2: unknown tags. A tag that is not byte for byte one of the ten known tags
\* looks up to None: no partial, case-insensitive or default match, and xxxx,
\* zzzz and IS32 in particular give None.
C2_UnknownTagIsNone ==
    call = "from_ostype" =>
        /\ ostype \notin KnownTags => icon_type = None
        /\ ostype \in {Tag_xxxx, Tag_zzzz, Tag_IS32} => icon_type = None

C2_Witness ==
    /\ call = "from_ostype"
    /\ ostype = Tag_IS32
    /\ icon_type = None

\* C3: injectivity. No two distinct variants have the same tag (the ten
\* variants give ten tags), and no two distinct recognized tags look up to the
\* same variant.
C3_Injective ==
    /\ call = "ostype" =>
        /\ \A w \in IconType : Some(w) # self => ostype_of(w) # ostype
        /\ Cardinality({ostype_of(w) : w \in IconType}) = 10
    /\ (call = "from_ostype" /\ icon_type # None) =>
        \A t \in OSTypes :
            (t # ostype /\ from_ostype(t) # None) => from_ostype(t) # icon_type

C3_Witness ==
    /\ call = "ostype"
    /\ self = Some("RGBA32_512x512")
    /\ ostype = Tag_ic09

\* C4: reverse round trip. If from_ostype(t) is Some(v) then v.ostype() is t,
\* so a tag is recognized exactly when it is the tag of one of the variants.
C4_ReverseRoundTrip ==
    call = "from_ostype" =>
        /\ icon_type # None => ostype_of(icon_type[1]) = ostype
        /\ icon_type # None <=> ostype \in {ostype_of(v) : v \in IconType}

C4_Witness ==
    /\ call = "from_ostype"
    /\ ostype = Tag_ic14
    /\ icon_type = Some("RGBA32_256x256_2x")

\* The density multiplier of a variant as the documentation names it: 2 for the
\* two _2x variants and 1 for the other eight.
Density(v) == IF v \in {"RGBA32_256x256_2x", "RGBA32_512x512_2x"} THEN 2 ELSE 1

\* C5: pixel_width(v) is screen_width(v) times the density multiplier: twice
\* the screen width for the two _2x variants and the screen width for the rest.
C5_PixelIsScreenTimesDensity ==
    /\ call = "pixel_width" =>
        /\ width = Density(self[1]) * screen_width(self[1])
        /\ width \in {screen_width(self[1]), 2 * screen_width(self[1])}
    /\ call = "screen_width" =>
        pixel_width(self[1]) = Density(self[1]) * width

C5_Witness ==
    /\ call = "pixel_width"
    /\ self = Some("RGBA32_256x256_2x")
    /\ width = 512

\* C6: the stated rows of the table. is32 is the 16x16 24-bit image (16, 16);
\* ic14 is RGBA32_256x256_2x (pixel 512, screen 256); ic10 is
\* RGBA32_512x512_2x (pixel 1024, screen 512); Mask8_128x128 has tag t8mk
\* (128, 128); RGBA32_256x256 is (256, 256).
C6_StatedTable ==
    /\ call = "from_ostype" =>
        /\ ostype = Tag_is32 => icon_type = Some("RGB24_16x16")
        /\ ostype = Tag_ic14 => icon_type = Some("RGBA32_256x256_2x")
        /\ ostype = Tag_ic10 => icon_type = Some("RGBA32_512x512_2x")
    /\ call = "ostype" =>
        (self = Some("Mask8_128x128") => ostype = Tag_t8mk)
    /\ call = "pixel_width" =>
        /\ self = Some("RGB24_16x16") => width = 16
        /\ self = Some("RGBA32_256x256_2x") => width = 512
        /\ self = Some("RGBA32_512x512_2x") => width = 1024
        /\ self = Some("Mask8_128x128") => width = 128
        /\ self = Some("RGBA32_256x256") => width = 256
    /\ call = "screen_width" =>
        /\ self = Some("RGB24_16x16") => width = 16
        /\ self = Some("RGBA32_256x256_2x") => width = 256
        /\ self = Some("RGBA32_512x512_2x") => width = 512
        /\ self = Some("Mask8_128x128") => width = 128
        /\ self = Some("RGBA32_256x256") => width = 256

C6_Witness ==
    /\ call = "screen_width"
    /\ self = Some("RGBA32_512x512_2x")
    /\ width = 512

\* The code points of a UTF-8 byte sequence; -1 stands for a malformed rest.
RECURSIVE Utf8Decode(_)
Utf8Decode(bs) ==
    IF bs = <<>> THEN <<>>
    ELSE LET h == Head(bs)
             cont(k) == Len(bs) >= k /\ bs[k] >= 128 /\ bs[k] < 192
         IN  IF h < 128 THEN <<h>> \o Utf8Decode(Tail(bs))
             ELSE IF h >= 194 /\ h < 224 /\ cont(2)
                 THEN <<(h - 192) * 64 + (bs[2] - 128)>>
                      \o Utf8Decode(SubSeq(bs, 3, Len(bs)))
             ELSE IF h >= 224 /\ h < 240 /\ cont(2) /\ cont(3)
                 THEN <<(h - 224) * 4096 + (bs[2] - 128) * 64 + (bs[3] - 128)>>
                      \o Utf8Decode(SubSeq(bs, 4, Len(bs)))
             ELSE <<-1>>

\* C7: Display fidelity. The text written for the bytes b0 b1 b2 b3 is exactly
\* four code points with the values b0, b1, b2, b3 in that order, also for
\* bytes from 0x80 up; the bytes 0x69 0x63 0x30 0x38 are written as "ic08".
C7_DisplayFidelity ==
    call = "fmt" =>
        /\ ~panicked
        /\ Len(Utf8Decode(out)) = 4
        /\ \A i \in 1..4 : Utf8Decode(out)[i] = ostype[i]
        /\ ostype = Tag_ic08 => out = <<105, 99, 48, 56>>

C7_Witness ==
    /\ call = "fmt"
    /\ ostype = <<105, 128, 255, 120>>
    /\ out = <<105, 194, 128, 195, 191, 120>>

\* C8: no panic. from_ostype returns Some of a variant or None for every tag,
\* ostype gives four bytes and the widths a number for every variant, and the
\* unwrap in Display never fails, every byte value 0..255 being a Unicode
\* scalar value.
C8_NoPanic ==
    /\ ~panicked
    /\ call = "from_ostype" =>
        \/ icon_type = None
        \/ Len(icon_type) = 1 /\ icon_type[1] \in IconType
    /\ call = "ostype" => ostype \in [1..4 -> Byte]
    /\ call \in {"pixel_width", "screen_width"} => width \in Nat
    /\ call = "fmt" =>
        /\ Len(out) >= 4
        /\ \A x \in Byte : char_from_u32(u32_from(x)) # None

C8_Witness ==
    /\ call = "fmt"
    /\ ~panicked
    /\ ostype = <<255, 128, 255, 128>>
    /\ Len(out) = 8

\* a < b as the documentation states it: at the first index where the two
\* differ, a's byte is the smaller.
FirstDiffLess(a, c) ==
    LET D == {i \in 1..4 : a[i] # c[i]}
    IN  /\ D # {}
        /\ LET i == CHOOSE i \in D : \A j \in D : i <= j
           IN  a[i] < c[i]

\* C9: OSType's order is byte-lexicographic over unsigned bytes and agrees with
\* equality: a < b iff a's byte is smaller at the first index where they
\* differ, a == b iff all four bytes are equal, and exactly one of a < b,
\* a == b, a > b holds.
C9_LexicographicOrder ==
    call = "cmp" =>
        /\ ordering = "Less" <=> FirstDiffLess(ostype, rhs)
        /\ ordering = "Greater" <=> FirstDiffLess(rhs, ostype)
        /\ equal <=> (\A i \in 1..4 : ostype[i] = rhs[i])
        /\ ordering = "Equal" <=> equal
        /\ Cardinality({k \in {"lt", "eq", "gt"} :
                \/ k = "lt" /\ ordering = "Less"
                \/ k = "eq" /\ equal
                \/ k = "gt" /\ ordering = "Greater"}) = 1

C9_Witness ==
    /\ call = "cmp"
    /\ ostype = <<0, 127, 128, 0>>
    /\ rhs = <<0, 128, 0, 0>>
    /\ ordering = "Less"
    /\ ~equal

\* C10: ten variants, every screen width one of 16, 32, 128, 256, 512, and 2x
\* density only in the 256 and 512 classes: a variant whose pixel width is not
\* its screen width has screen width 256 or 512, and the 24-bit images and
\* 8-bit masks (screen width 16, 32 or 128) have equal pixel and screen width.
C10_SizeClasses ==
    /\ Cardinality(IconType) = 10
    /\ call = "screen_width" =>
        /\ width \in {16, 32, 128, 256, 512}
        /\ pixel_width(self[1]) # width => width \in {256, 512}
        /\ width \in {16, 32, 128} => pixel_width(self[1]) = width
        /\ self[1] \in {"RGB24_16x16", "Mask8_16x16", "RGB24_32x32", "Mask8_32x32",
                        "RGB24_128x128", "Mask8_128x128"} => width \in {16, 32, 128}
    /\ call = "pixel_width" =>
        /\ width # screen_width(self[1]) => screen_width(self[1]) \in {256, 512}
        /\ screen_width(self[1]) \in {16, 32, 128} => width = screen_width(self[1])

C10_Witness ==
    /\ call = "pixel_width"
    /\ self = Some("RGB24_128x128")
    /\ width = 128

====
